---- MODULE Spec2Model ----
(***************************************************************************)
(* Optimistic ordered-resource synchronisation of the car marketplace UI:  *)
(* the image list of a listing (ListingImageUploader: upload, delete,      *)
(* pairwise swap, promote-to-cover) against the remote listing_images      *)
(* table with UNIQUE (listing_id, position), and the react-query cache     *)
(* entry ["listing-images", listingId] that mirrors it; and the favorites  *)
(* of the listings page (ListingsPage: toggleFavorite) against the remote  *)
(* favorites table with UNIQUE (user_id, listing_id) and the cache entry   *)
(* favKey.                                                                 *)
(*                                                                         *)
(* One action is one uninterrupted run of the event loop: a click handler  *)
(* with the onMutate that follows it, or the commit of one awaited remote  *)
(* call together with the code that runs when its response resumes the     *)
(* mutationFn (the next request is then in flight), including onSuccess    *)
(* or onError when the call was the last one or failed.                    *)
(***************************************************************************)
EXTENDS Integers, Sequences, FiniteSets, TLC

VARIABLES
    rows,       \* remote listing_images: live image id -> position
    cache,      \* query data of ["listing-images", l]: array of [id, position]
    loaded,     \* whether the query of listing l has data (not imagesLoading)
    fetch,      \* the queryFn run in flight for ["listing-images", listingId]
    mut,        \* the four useMutation instances of the mounted uploader
    issued,     \* pending mutations in the order the user issued them
    confirmed,  \* the cache value the server last acknowledged
    staleListing, \* ["listing", listingId] has been invalidated
    uploaded,   \* image ids the remote store has assigned to uploads
    clicks,     \* user intents issued so far
    focuses,    \* refetches on window focus so far
    failures,   \* network failures injected so far
    errors,     \* onError runs so far (network failures and rejected writes)
    favRemote,  \* remote favorites of the signed-in user: listing ids
    favCache,   \* query data of favKey: the Set of favorited ids of the page
    favLoaded,  \* whether favKey has data (favSet is not undefined)
    favFetch,   \* the queryFn run in flight for favKey
    toggle,     \* the toggleFavorite mutation of ListingsPage
    favConfirmed, \* the favorites set the server last acknowledged
    favStale,   \* ["favorites"] has been invalidated
    favCalls,   \* the remote calls toggleFavorite has dispatched, in order
    existingImages,  \* ListingForm state: the rows loaded, in displayed order
    deletedImageIds, \* ListingForm state: the existing images marked removed
    save,       \* the save mutation of ListingForm (edit mode)
    edits       \* moves and removals made in the form so far

imgVars == <<rows, cache, loaded, fetch, mut, issued, confirmed, staleListing,
             uploaded>>

favVars == <<favRemote, favCache, favLoaded, favFetch, toggle, favConfirmed,
             favStale, favCalls>>

formVars == <<existingImages, deletedImageIds, save, edits>>

vars == <<imgVars, favVars, formVars, clicks, focuses, failures, errors>>

-----------------------------------------------------------------------------
(* Bounds of the model *)

MaxClicks == 2

MaxFailures == 2

MaxFocuses == 1

MaxFiles == 1

MaxEdits == 2

-----------------------------------------------------------------------------
(* Program constants *)

temp == -999999

Offset == 1000

listingId == "P"

Listings == {"P", "Q"}

InitialIds == {"X", "Y", "Z", "U"}

NewIds == <<"N1", "N2">>

ListingOf(id) == IF id = "U" THEN "Q" ELSE "P"

Img(id, p) == [id |-> id, position |-> p]

-----------------------------------------------------------------------------
(* Array helpers *)

RECURSIVE InsertSorted(_, _)
InsertSorted(s, e) ==
    IF s = <<>> THEN <<e>>
    ELSE IF e.position < Head(s).position THEN <<e>> \o s
    ELSE <<Head(s)>> \o InsertSorted(Tail(s), e)

RECURSIVE sortByPosition(_)
\* [...images].sort((a, b) => a.position - b.position), a stable sort
sortByPosition(images) ==
    IF images = <<>> THEN <<>>
    ELSE InsertSorted(sortByPosition(SubSeq(images, 1, Len(images) - 1)),
                      images[Len(images)])

normalizePositions(images) ==
    LET sorted == sortByPosition(images)
    IN  [idx \in 1..Len(sorted) |-> Img(sorted[idx].id, idx - 1)]

RECURSIVE Filter(_, _)
\* prev.filter((x) => x.id !== id)
Filter(s, id) ==
    IF s = <<>> THEN <<>>
    ELSE IF Head(s).id = id THEN Filter(Tail(s), id)
    ELSE <<Head(s)>> \o Filter(Tail(s), id)

\* rows.findIndex((r) => r.id === id), 1-based, 0 when absent
findIndex(s, id) ==
    IF \E k \in 1..Len(s) : s[k].id = id
    THEN CHOOSE k \in 1..Len(s) : s[k].id = id /\ \A j \in 1..(k - 1) : s[j].id # id
    ELSE 0

\* [rows[idx], ...rows.filter((_, i) => i !== idx)]
MoveToFront(s, idx) ==
    <<s[idx]>> \o SubSeq(s, 1, idx - 1) \o SubSeq(s, idx + 1, Len(s))

Positions(s) == {s[k].position : k \in 1..Len(s)}

Ids(s) == [k \in 1..Len(s) |-> s[k].id]

MaxOf(S) == CHOOSE x \in S : \A y \in S : y <= x

-----------------------------------------------------------------------------
(* Remote store: table listing_images, UNIQUE (listing_id, position) *)

RowsOf(r, l) == {id \in DOMAIN r : ListingOf(id) = l}

RECURSIVE OrderRows(_, _)
OrderRows(r, S) ==
    IF S = {} THEN <<>>
    ELSE LET lo == CHOOSE id \in S : \A o \in S : r[id] <= r[o]
         IN  <<Img(lo, r[lo])>> \o OrderRows(r, S \ {lo})

\* a select without the listing filter
SelectImagesAll(r, l) == OrderRows(r, DOMAIN r)

\* select("id, position").eq("listing_id", l).order("position")
SelectImages(r, l) == OrderRows(r, RowsOf(r, l))

\* update({ position: p }).eq("id", id) is rejected by the unique constraint
Collides(r, id, p) ==
    /\ id \in DOMAIN r
    /\ \E o \in RowsOf(r, ListingOf(id)) \ {id} : r[o] = p

\* the table after an accepted update; no row matches a deleted id
UpdatePosition(r, id, p) ==
    IF id \in DOMAIN r THEN [r EXCEPT ![id] = p] ELSE r

\* delete().eq("id", id)
DeleteRow(r, id) == [o \in DOMAIN r \ {id} |-> r[o]]

-----------------------------------------------------------------------------
(* Mutations of the mounted uploader *)

Muts == {"delete", "reorder", "setCover", "upload"}

NoImg == Img("", 0)

\* pc: the awaited call in flight; a, b: the arguments; prev: ctx.prev;
\* rws, i: the rows and index of a renumbering loop; n: files selected;
\* w: position writes committed; r0: the table when the intent was issued;
\* solo: no other mutation was pending when the intent was issued and no
\* other intent has been issued since
IdleMut == [pc |-> "idle", a |-> NoImg, b |-> NoImg, prev |-> <<>>,
            rws |-> <<>>, i |-> 0, n |-> 0, w |-> 0, r0 |-> <<>>,
            solo |-> FALSE]

Pending(m) == mut[m].pc # "idle"

\* the mutations as a new intent m with record r finds them
Joined(mm, m, r) ==
    [o \in Muts |->
        IF o = m
        THEN [r EXCEPT !.r0 = rows, !.solo = \A x \in Muts : mm[x].pc = "idle"]
        ELSE [mm[o] EXCEPT !.solo = FALSE]]

NoFetch == [st |-> "idle", data |-> <<>>]

existingSorted == sortByPosition(cache[listingId])

TypeOK ==
    /\ DOMAIN rows \subseteq InitialIds \cup {NewIds[k] : k \in 1..Len(NewIds)}
    /\ \A id \in DOMAIN rows : rows[id] \in Int
    /\ DOMAIN cache = Listings
    /\ loaded \in [Listings -> BOOLEAN]
    /\ fetch.st \in {"idle", "reading", "landing"}
    /\ DOMAIN mut = Muts
    /\ uploaded \in 0..Len(NewIds)
    /\ clicks \in 0..MaxClicks
    /\ focuses \in 0..MaxFocuses
    /\ failures \in 0..MaxFailures
    /\ errors \in Nat

\* the table when the page opens: X, Y, Z of listing P, U of listing Q
InitialRows ==
    [id \in InitialIds |->
        CASE id = "X" -> 0 [] id = "Y" -> 1 [] id = "Z" -> 2 [] OTHER -> 0]

ImagesInit ==
    /\ rows = InitialRows
    /\ cache = [l \in Listings |-> <<>>]
    /\ loaded = [l \in Listings |-> FALSE]
    /\ fetch = [st |-> "reading", data |-> <<>>]
    /\ mut = [m \in Muts |-> IdleMut]
    /\ issued = <<>>
    /\ confirmed = <<>>
    /\ staleListing = FALSE
    /\ uploaded = 0

CountersInit ==
    /\ clicks = 0
    /\ focuses = 0
    /\ failures = 0
    /\ errors = 0

-----------------------------------------------------------------------------
(* The query ["listing-images", listingId] *)

\* an invalidateQueries whose promise never resolves
ReleaseNone(mm) == mm

\* a promise of invalidateQueries resolves when its fetch lands or is cancelled;
\* the mutation awaiting it goes on to invalidate ["listing", listingId]
Release(mm) ==
    [m \in Muts |-> IF mm[m].pc = "await1" THEN [mm[m] EXCEPT !.pc = "await2"]
                    ELSE mm[m]]

Released == \E m \in Muts : mut[m].pc = "await1"

\* the queryFn's select reaches the server
FetchRead ==
    /\ fetch.st = "reading"
    /\ fetch' = [st |-> "landing", data |-> SelectImages(rows, listingId)]
    /\ UNCHANGED <<rows, cache, loaded, mut, issued, confirmed, staleListing,
                   uploaded, clicks, focuses, failures, errors>>
    /\ UNCHANGED <<favVars, formVars>>

\* the response becomes the query data
FetchLand ==
    /\ fetch.st = "landing"
    /\ cache' = [cache EXCEPT ![listingId] = fetch.data]
    /\ loaded' = [loaded EXCEPT ![listingId] = TRUE]
    /\ confirmed' = fetch.data
    /\ fetch' = NoFetch
    /\ mut' = Release(mut)
    /\ staleListing' = (staleListing \/ Released)
    /\ UNCHANGED <<rows, issued, uploaded, clicks, focuses, failures, errors>>
    /\ UNCHANGED <<favVars, formVars>>

\* stale data (staleTime 10 s) is refetched when the window regains focus
WindowFocus ==
    /\ fetch.st = "idle"
    /\ loaded[listingId]
    /\ focuses < MaxFocuses
    /\ focuses' = focuses + 1
    /\ fetch' = [st |-> "reading", data |-> <<>>]
    /\ UNCHANGED <<rows, cache, loaded, mut, issued, confirmed, staleListing,
                   uploaded, clicks, failures, errors>>
    /\ UNCHANGED <<favVars, formVars>>

-----------------------------------------------------------------------------
(* The optimistic lists of the three onMutate callbacks *)

\* the optimistic delete without its filter
DeleteNextUnfiltered(prev, id) == normalizePositions(prev)

\* deleteMutation.onMutate: remove, then normalize
DeleteNext(prev, id) == normalizePositions(Filter(prev, id))

\* reorderMutation.onMutate: a takes b.position, b takes a.position, then sort
SwapNext(prev, a, b) ==
    sortByPosition(
        [k \in 1..Len(prev) |->
            IF prev[k].id = a.id THEN Img(prev[k].id, b.position)
            ELSE IF prev[k].id = b.id THEN Img(prev[k].id, a.position)
            ELSE prev[k]])

\* setCoverMutation.onMutate: nothing when the image is first or absent
CoverNext(prev, id) ==
    LET sorted == sortByPosition(prev)
        idx == findIndex(sorted, id)
    IN  IF idx <= 1 THEN prev
        ELSE normalizePositions(MoveToFront(sorted, idx))

Optimistic == {"delete", "reorder", "setCover"}

\* the intent of mutation m applied to a list
ApplyIntent(m, r, list) ==
    CASE m = "delete"   -> DeleteNext(list, r.a.id)
      [] m = "reorder"  -> SwapNext(list, r.a, r.b)
      [] m = "setCover" -> CoverNext(list, r.a.id)
      [] OTHER          -> list

-----------------------------------------------------------------------------
(* Resolution of a mutation *)

Remove(s, m) == SelectSeq(s, LAMBDA x : x # m)

\* the mutationFn goes on to its next awaited call
Continue(mm) ==
    /\ mut' = mm
    /\ UNCHANGED <<cache, loaded, fetch, issued, confirmed, staleListing, errors>>

\* an onSuccess without the invalidation of the image list
SucceedSilent(m, mm) ==
    /\ mut' = [mm EXCEPT ![m].pc = "await2"]
    /\ staleListing' = TRUE
    /\ confirmed' = ApplyIntent(m, mut[m], confirmed)
    /\ UNCHANGED <<cache, loaded, fetch, issued, errors>>

\* onSuccess: await qc.invalidateQueries({ queryKey }) refetches the image list
\* (a fetch already in flight is cancelled and restarted)
Succeed(m, mm) ==
    /\ mut' = [Release(mm) EXCEPT ![m] = [mm[m] EXCEPT !.pc = "await1"]]
    /\ fetch' = [st |-> "reading", data |-> <<>>]
    /\ staleListing' = (staleListing \/ Released)
    /\ confirmed' = ApplyIntent(m, mut[m], confirmed)
    /\ UNCHANGED <<cache, loaded, issued, errors>>

\* an onError that reports the message and leaves the cache alone
FailKeep(m) ==
    /\ mut' = [mut EXCEPT ![m] = IdleMut]
    /\ issued' = Remove(issued, m)
    /\ errors' = errors + 1
    /\ UNCHANGED <<cache, loaded, fetch, confirmed, staleListing>>

\* onError: if (ctx?.prev) qc.setQueryData(queryKey, ctx.prev); upload has no
\* onMutate and only reports the message
Fail(m) ==
    /\ cache' = IF m \in Optimistic
                THEN [cache EXCEPT ![listingId] = mut[m].prev]
                ELSE cache
    /\ mut' = [mut EXCEPT ![m] = IdleMut]
    /\ issued' = Remove(issued, m)
    /\ errors' = errors + 1
    /\ UNCHANGED <<loaded, fetch, confirmed, staleListing>>

\* the second await of onSuccess, invalidateQueries(["listing", listingId]),
\* returns; the mutation is no longer pending (upload: onSettled clears busy)
Settle(m) ==
    /\ mut[m].pc = "await2"
    /\ mut' = [mut EXCEPT ![m] = IdleMut]
    /\ issued' = Remove(issued, m)
    /\ UNCHANGED <<rows, cache, loaded, fetch, confirmed, staleListing,
                   uploaded, clicks, focuses, failures, errors>>
    /\ UNCHANGED <<favVars, formVars>>

RemotePcs == {"delRow", "delRead", "covRead", "p1", "p2", "w1", "w2", "w3",
              "store", "insert"}

\* the awaited call returns an error without having committed
NetworkFailure(m) ==
    /\ mut[m].pc \in RemotePcs
    /\ failures < MaxFailures
    /\ failures' = failures + 1
    /\ Fail(m)
    /\ UNCHANGED <<rows, uploaded, clicks, focuses>>
    /\ UNCHANGED <<favVars, formVars>>

\* an onMutate that snapshots the list it last saw from the server instead of
\* the current query data
OnMutateStale(m, args) ==
    /\ loaded[listingId]
    /\ clicks < MaxClicks
    /\ clicks' = clicks + 1
    /\ fetch' = NoFetch
    /\ staleListing' = (staleListing \/ Released)
    /\ cache' = [cache EXCEPT ![listingId] = ApplyIntent(m, args, confirmed)]
    /\ mut' = Joined(Release(mut), m, [args EXCEPT !.prev = confirmed])
    /\ issued' = Append(issued, m)
    /\ UNCHANGED <<rows, loaded, confirmed, uploaded, focuses, failures, errors>>

\* mutate(): onMutate awaits qc.cancelQueries({ queryKey }), takes the snapshot
\* and writes the optimistic list; the mutationFn's first call is then in flight
OnMutate(m, args) ==
    /\ loaded[listingId]
    /\ clicks < MaxClicks
    /\ clicks' = clicks + 1
    /\ fetch' = NoFetch
    /\ staleListing' = (staleListing \/ Released)
    /\ cache' = [cache EXCEPT ![listingId] = ApplyIntent(m, args, cache[listingId])]
    /\ mut' = Joined(Release(mut), m, [args EXCEPT !.prev = cache[listingId]])
    /\ issued' = Append(issued, m)
    /\ UNCHANGED <<rows, loaded, confirmed, uploaded, focuses, failures, errors>>

\* update({ position: p }).eq("id", id) of mutation m: rejected by the unique
\* constraint (the mutationFn throws), or committed
WritePosition(m, id, p, mm, done) ==
    /\ IF Collides(rows, id, p)
       THEN /\ Fail(m)
            /\ UNCHANGED rows
       ELSE /\ rows' = UpdatePosition(rows, id, p)
            /\ IF done THEN Succeed(m, mm) ELSE Continue(mm)
    /\ UNCHANGED <<uploaded, clicks, focuses, failures>>

\* one update of a renumbering loop: rws[i] := base + index
RenumberStep(m, base, nextPc) ==
    LET i == mut[m].i
        last == i = Len(mut[m].rws)
    IN  WritePosition(m, mut[m].rws[i], base + (i - 1),
                      [mut EXCEPT ![m].i = IF last THEN 1 ELSE i + 1,
                                  ![m].w = @ + 1,
                                  ![m].pc = IF last THEN nextPc ELSE @],
                      last /\ nextPc = "done")

-----------------------------------------------------------------------------
(* deleteMutation *)

ClickDelete(k) ==
    /\ ~Pending("delete")
    /\ k \in 1..Len(existingSorted)
    /\ OnMutate("delete",
                [IdleMut EXCEPT !.pc = "delRow", !.a = existingSorted[k]])
    /\ UNCHANGED <<favVars, formVars>>

\* delete().eq("id", img.id), then the best-effort storage removal
DeleteRowStep ==
    /\ mut["delete"].pc = "delRow"
    /\ rows' = DeleteRow(rows, mut["delete"].a.id)
    /\ Continue([mut EXCEPT !["delete"].pc = "delRead"])
    /\ UNCHANGED <<uploaded, clicks, focuses, failures>>
    /\ UNCHANGED <<favVars, formVars>>

\* the fresh read of the remaining rows; both loops are empty without rows
DeleteRead ==
    /\ mut["delete"].pc = "delRead"
    /\ LET data == SelectImages(rows, listingId)
       IN  IF data = <<>>
           THEN Succeed("delete", mut)
           ELSE Continue([mut EXCEPT !["delete"].rws = Ids(data),
                                     !["delete"].i = 1,
                                     !["delete"].pc = "p1"])
    /\ UNCHANGED <<rows, uploaded, clicks, focuses, failures>>
    /\ UNCHANGED <<favVars, formVars>>

DeletePhase1 ==
    /\ mut["delete"].pc = "p1"
    /\ RenumberStep("delete", Offset, "p2")
    /\ UNCHANGED <<favVars, formVars>>

DeletePhase2 ==
    /\ mut["delete"].pc = "p2"
    /\ RenumberStep("delete", 0, "done")
    /\ UNCHANGED <<favVars, formVars>>

-----------------------------------------------------------------------------
(* reorderMutation *)

anyReorderBusy == Pending("reorder") \/ Pending("setCover")

\* moveDown of image j, or moveUp of image j + 1: a is the upper image
ClickSwap(j) ==
    /\ ~anyReorderBusy
    /\ j \in 1..(Len(existingSorted) - 1)
    /\ OnMutate("reorder",
                [IdleMut EXCEPT !.pc = "w1", !.a = existingSorted[j],
                                !.b = existingSorted[j + 1]])
    /\ UNCHANGED <<favVars, formVars>>

SwapWrite(pc, id, p, nextPc) ==
    /\ mut["reorder"].pc = pc
    /\ WritePosition("reorder", id, p,
                     [mut EXCEPT !["reorder"].pc = nextPc, !["reorder"].w = @ + 1],
                     nextPc = "done")
    /\ UNCHANGED <<favVars, formVars>>

Swap1 == SwapWrite("w1", mut["reorder"].a.id, temp, "w2")

Swap2 == SwapWrite("w2", mut["reorder"].b.id, mut["reorder"].a.position, "w3")

\* the third write one slot too far
Swap3Shifted ==
    SwapWrite("w3", mut["reorder"].a.id, mut["reorder"].b.position + 1, "done")

Swap3 == SwapWrite("w3", mut["reorder"].a.id, mut["reorder"].b.position, "done")

-----------------------------------------------------------------------------
(* setCoverMutation *)

\* the button is rendered for every image but the cover
ClickSetCover(k) ==
    /\ ~Pending("setCover")
    /\ k \in 2..Len(existingSorted)
    /\ OnMutate("setCover",
                [IdleMut EXCEPT !.pc = "covRead", !.a = existingSorted[k]])
    /\ UNCHANGED <<favVars, formVars>>

\* the fresh read; if (idx <= 0) return
CoverRead ==
    /\ mut["setCover"].pc = "covRead"
    /\ LET data == SelectImages(rows, listingId)
           idx == findIndex(data, mut["setCover"].a.id)
       IN  IF idx <= 1
           THEN Succeed("setCover", mut)
           ELSE Continue([mut EXCEPT
                            !["setCover"].rws = Ids(MoveToFront(data, idx)),
                            !["setCover"].i = 1,
                            !["setCover"].pc = "p1"])
    /\ UNCHANGED <<rows, uploaded, clicks, focuses, failures>>
    /\ UNCHANGED <<favVars, formVars>>

CoverPhase1 ==
    /\ mut["setCover"].pc = "p1"
    /\ RenumberStep("setCover", Offset, "p2")
    /\ UNCHANGED <<favVars, formVars>>

CoverPhase2 ==
    /\ mut["setCover"].pc = "p2"
    /\ RenumberStep("setCover", 0, "done")
    /\ UNCHANGED <<favVars, formVars>>

-----------------------------------------------------------------------------
(* uploadMutation *)

startPos ==
    IF Len(existingSorted) > 0 THEN MaxOf(Positions(existingSorted)) + 1 ELSE 0

\* the Upload button: disabled={busy || selected.length === 0}; the mutationFn
\* computes startPos from the rendered list before its first await
ClickUpload(n) ==
    /\ ~Pending("upload")
    /\ n \in 1..MaxFiles
    /\ uploaded + n <= Len(NewIds)
    /\ clicks < MaxClicks
    /\ clicks' = clicks + 1
    /\ mut' = Joined(mut, "upload",
                     [IdleMut EXCEPT !.pc = "store", !.i = 1, !.n = n,
                                     !.a = Img("", startPos)])
    /\ issued' = Append(issued, "upload")
    /\ UNCHANGED <<rows, cache, loaded, fetch, confirmed, staleListing,
                   uploaded, focuses, failures, errors>>
    /\ UNCHANGED <<favVars, formVars>>

\* supabase.storage.from(BUCKET).upload(path, file) of file i
UploadStore ==
    /\ mut["upload"].pc = "store"
    /\ Continue([mut EXCEPT
                   !["upload"].i = @ + 1,
                   !["upload"].pc = IF mut["upload"].i = mut["upload"].n
                                    THEN "insert" ELSE @])
    /\ UNCHANGED <<rows, uploaded, clicks, focuses, failures>>
    /\ UNCHANGED <<favVars, formVars>>

\* the rows of the single insert: file i at startPos + i
Payload(start, n) ==
    [k \in 1..n |-> Img(NewIds[uploaded + k], start + (k - 1))]

\* the table after the insert
InsertRows(r, payload) ==
    [id \in DOMAIN r \cup {payload[k].id : k \in 1..Len(payload)} |->
        IF id \in DOMAIN r THEN r[id]
        ELSE payload[findIndex(payload, id)].position]

\* insert(payload): all rows or, on a unique violation, none
UploadInsert ==
    /\ mut["upload"].pc = "insert"
    /\ LET payload == Payload(mut["upload"].a.position, mut["upload"].n)
           taken == {rows[o] : o \in RowsOf(rows, listingId)}
       IN  IF Positions(payload) \cap taken # {}
           THEN /\ Fail("upload")
                /\ UNCHANGED <<rows, uploaded>>
           ELSE /\ rows' = InsertRows(rows, payload)
                /\ uploaded' = uploaded + Len(payload)
                /\ Succeed("upload", mut)
    /\ UNCHANGED <<clicks, focuses, failures>>
    /\ UNCHANGED <<favVars, formVars>>

-----------------------------------------------------------------------------
(* ListingsPage: the favorites of the page, favKey, and toggleFavorite *)

PageIds == {"L1", "L2"}

\* id: the listing toggled; isFav: what the mutationFn read from favSet;
\* hasPrev, prev: ctx.prev, undefined when favKey had no data
IdleToggle == [pc |-> "idle", id |-> "", isFav |-> FALSE,
               hasPrev |-> FALSE, prev |-> {}]

NoFavFetch == [st |-> "idle", data |-> {}]

FavoritesInit(remote) ==
    /\ favRemote = remote
    /\ favCache = {}
    /\ favLoaded = FALSE
    /\ favFetch = [st |-> "reading", data |-> {}]
    /\ toggle = IdleToggle
    /\ favConfirmed = {}
    /\ favStale = FALSE
    /\ favCalls = <<>>

\* fetchFavoritesForListingIds reaches the server (not while the browser is
\* offline, which is when a toggle is paused)
FavFetchRead ==
    /\ favFetch.st = "reading"
    /\ toggle.pc # "paused"
    /\ favFetch' = [st |-> "landing", data |-> favRemote \cap PageIds]
    /\ UNCHANGED <<favRemote, favCache, favLoaded, toggle, favConfirmed,
                   favStale, favCalls, clicks, focuses, failures, errors>>
    /\ UNCHANGED <<imgVars, formVars>>

FavFetchLand ==
    /\ favFetch.st = "landing"
    /\ toggle.pc # "paused"
    /\ favCache' = favFetch.data
    /\ favLoaded' = TRUE
    /\ favConfirmed' = favFetch.data
    /\ favFetch' = NoFavFetch
    /\ UNCHANGED <<favRemote, toggle, favStale, favCalls, clicks, focuses,
                   failures, errors>>
    /\ UNCHANGED <<imgVars, formVars>>

\* stale data (staleTime 10 s) is refetched when the window regains focus
FavWindowFocus ==
    /\ favFetch.st = "idle"
    /\ toggle.pc # "paused"
    /\ favLoaded
    /\ focuses < MaxFocuses
    /\ focuses' = focuses + 1
    /\ favFetch' = [st |-> "reading", data |-> {}]
    /\ UNCHANGED <<favRemote, favCache, favLoaded, toggle, favConfirmed,
                   favStale, favCalls, clicks, failures, errors>>
    /\ UNCHANGED <<imgVars, formVars>>

\* the toggle that only ever removes
ToggledRemove(set, id) == set \ {id}

\* the toggle that only ever adds
ToggledAdd(set, id) == set \cup {id}

\* if (next.has(listingId)) next.delete(listingId); else next.add(listingId)
Toggled(set, id) == IF id \in set THEN set \ {id} ELSE set \cup {id}

\* the favorite button (disabled while toggleFavorite.isPending): onMutate
\* cancels the favKey fetch, snapshots the query data and writes the toggled
\* copy of prev ?? favSet ?? new Set(); the mutationFn then reads isFav from
\* favSet and its call is in flight
ClickToggle(id) ==
    /\ toggle.pc = "idle"
    /\ id \in PageIds
    /\ clicks < MaxClicks
    /\ clicks' = clicks + 1
    /\ favFetch' = NoFavFetch
    /\ favCache' = Toggled(IF favLoaded THEN favCache ELSE {}, id)
    /\ favLoaded' = TRUE
    /\ toggle' = [pc |-> "call", id |-> id,
                  isFav |-> (favLoaded /\ id \in favCache),
                  hasPrev |-> favLoaded,
                  prev |-> IF favLoaded THEN favCache ELSE {}]
    /\ favCalls' = Append(favCalls,
                          [op |-> IF favLoaded /\ id \in favCache
                                  THEN "delete" ELSE "insert",
                           id |-> id])
    /\ UNCHANGED <<favRemote, favConfirmed, favStale, focuses, failures, errors>>
    /\ UNCHANGED <<imgVars, formVars>>

\* the favorite button while the browser is offline: onMutate runs as above,
\* then the mutation is paused (networkMode online) and the mutationFn is not
\* called yet
ClickTogglePaused(id) ==
    /\ toggle.pc = "idle"
    /\ id \in PageIds
    /\ clicks < MaxClicks
    /\ clicks' = clicks + 1
    /\ favFetch' = NoFavFetch
    /\ favCache' = Toggled(IF favLoaded THEN favCache ELSE {}, id)
    /\ favLoaded' = TRUE
    /\ toggle' = [pc |-> "paused", id |-> id,
                  isFav |-> (favLoaded /\ id \in favCache),
                  hasPrev |-> favLoaded,
                  prev |-> IF favLoaded THEN favCache ELSE {}]
    /\ UNCHANGED <<favRemote, favConfirmed, favStale, favCalls, focuses,
                   failures, errors>>
    /\ UNCHANGED <<imgVars, formVars>>

\* the browser is online again: the paused mutation continues with the
\* mutationFn of the latest render, which reads isFav from the favSet that
\* render got from the cache, and its call is in flight
ToggleResume ==
    /\ toggle.pc = "paused"
    /\ toggle' = [toggle EXCEPT !.pc = "call",
                                !.isFav = (favLoaded /\ toggle.id \in favCache)]
    /\ favCalls' = Append(favCalls,
                          [op |-> IF favLoaded /\ toggle.id \in favCache
                                  THEN "delete" ELSE "insert",
                           id |-> toggle.id])
    /\ UNCHANGED <<favRemote, favCache, favLoaded, favFetch, favConfirmed,
                   favStale, clicks, focuses, failures, errors>>
    /\ UNCHANGED <<imgVars, formVars>>

\* onError: if (ctx?.prev) qc.setQueryData(favKey, ctx.prev)
ToggleFail ==
    /\ favCache' = IF toggle.hasPrev THEN toggle.prev ELSE favCache
    /\ toggle' = IdleToggle
    /\ errors' = errors + 1
    /\ UNCHANGED <<favLoaded, favFetch, favConfirmed, favStale, favCalls>>

\* onSuccess: await qc.invalidateQueries({ queryKey: ["favorites"] })
ToggleSucceed ==
    /\ favStale' = TRUE
    /\ favConfirmed' = IF toggle.isFav THEN favConfirmed \ {toggle.id}
                       ELSE favConfirmed \cup {toggle.id}
    /\ toggle' = IdleToggle
    /\ UNCHANGED <<favCache, favLoaded, favFetch, favCalls, errors>>

\* delete().eq(user_id).eq(listing_id) when isFav, else insert, which the
\* UNIQUE (user_id, listing_id) constraint rejects for an existing edge
ToggleCall ==
    /\ toggle.pc = "call"
    /\ IF toggle.isFav
       THEN /\ favRemote' = favRemote \ {toggle.id}
            /\ ToggleSucceed
       ELSE IF toggle.id \in favRemote
       THEN /\ ToggleFail
            /\ UNCHANGED favRemote
       ELSE /\ favRemote' = favRemote \cup {toggle.id}
            /\ ToggleSucceed
    /\ UNCHANGED <<clicks, focuses, failures>>
    /\ UNCHANGED <<imgVars, formVars>>

\* the call returns an error without having committed
ToggleNetworkFailure ==
    /\ toggle.pc = "call"
    /\ failures < MaxFailures
    /\ failures' = failures + 1
    /\ ToggleFail
    /\ UNCHANGED <<favRemote, clicks, focuses>>
    /\ UNCHANGED <<imgVars, formVars>>

-----------------------------------------------------------------------------
(* ListingForm in edit mode: existing images, their order, and Save *)

\* pc: the step of the mutationFn in flight; remaining, deleted: the values
\* of the render the mutationFn closed over; i: index of the update loop
IdleSave == [pc |-> "idle", remaining |-> <<>>, deleted |-> {}, i |-> 0]

\* the form is not mounted
FormClosed ==
    /\ existingImages = <<>>
    /\ deletedImageIds = {}
    /\ save = IdleSave
    /\ edits = 0

\* existingImages.filter((img) => !deletedImageIds.has(img.id))
visibleExisting ==
    SelectSeq(existingImages, LAMBDA x : x.id \notin deletedImageIds)

\* the indices (1-based) of the images not marked removed
visibleIdxs ==
    SelectSeq([k \in 1..Len(existingImages) |-> k],
              LAMBDA k : existingImages[k].id \notin deletedImageIds)

\* const [it] = next.splice(fromIdx, 1); next.splice(toIdx, 0, it)
Splice(s, fromIdx, toIdx) ==
    LET rest == SubSeq(s, 1, fromIdx - 1) \o SubSeq(s, fromIdx + 1, Len(s))
    IN  SubSeq(rest, 1, toIdx - 1) \o <<s[fromIdx]>> \o SubSeq(rest, toIdx, Len(rest))

\* the arrows of an existing image: moveExisting(idx, idx - 1) and
\* moveExisting(idx, idx + 1)
moveExisting(from, to) ==
    /\ save.pc = "idle"
    /\ edits < MaxEdits
    /\ from \in 1..Len(visibleIdxs)
    /\ to \in 1..Len(visibleIdxs)
    /\ to \in {from - 1, from + 1}
    /\ existingImages' = Splice(existingImages, visibleIdxs[from], visibleIdxs[to])
    /\ edits' = edits + 1
    /\ UNCHANGED <<deletedImageIds, save, imgVars, favVars, clicks, focuses,
                   failures, errors>>

\* Remove on an existing image
markExistingDeleted(id) ==
    /\ save.pc = "idle"
    /\ edits < MaxEdits
    /\ \E k \in 1..Len(visibleExisting) : visibleExisting[k].id = id
    /\ deletedImageIds' = deletedImageIds \cup {id}
    /\ edits' = edits + 1
    /\ UNCHANGED <<existingImages, save, imgVars, favVars, clicks, focuses,
                   failures, errors>>

\* Save (disabled while mutation.isPending): the mutationFn works on the
\* existingImages and deletedImageIds of the render it was created in
ClickSave ==
    /\ save.pc = "idle"
    /\ clicks < MaxClicks
    /\ clicks' = clicks + 1
    /\ save' = [pc |-> IF deletedImageIds # {} THEN "deleteRows" ELSE "positions",
                remaining |-> Ids(visibleExisting),
                deleted |-> deletedImageIds,
                i |-> 1]
    /\ UNCHANGED <<existingImages, deletedImageIds, edits, imgVars, favVars,
                   focuses, failures, errors>>

\* deleteListingImageRows(deletedIds): delete().in("id", ids)
SaveDeleteRows ==
    /\ save.pc = "deleteRows"
    /\ rows' = [o \in DOMAIN rows \ save.deleted |-> rows[o]]
    /\ save' = [save EXCEPT !.pc = "positions"]
    /\ UNCHANGED <<cache, loaded, fetch, mut, issued, confirmed, staleListing,
                   uploaded, existingImages, deletedImageIds, edits, favVars,
                   clicks, focuses, failures, errors>>

\* onSuccess: setDeletedImageIds(new Set()); the invalidated image query is
\* fetched again and its data becomes existingImages
SaveSucceed ==
    /\ save' = IdleSave
    /\ deletedImageIds' = {}
    /\ existingImages' = SelectImages(rows', listingId)
    /\ UNCHANGED errors

\* onError: setErrorMsg; the form keeps its state
SaveFail ==
    /\ save' = IdleSave
    /\ errors' = errors + 1
    /\ UNCHANGED <<existingImages, deletedImageIds>>

\* updateImagePositions: update({ position: idx }).eq("id", id) for the
\* remaining images in displayed order, one awaited call each
SaveUpdatePosition ==
    /\ save.pc = "positions"
    /\ IF save.i > Len(save.remaining)
       THEN /\ UNCHANGED rows
            /\ SaveSucceed
       ELSE IF Collides(rows, save.remaining[save.i], save.i - 1)
       THEN /\ UNCHANGED rows
            /\ SaveFail
       ELSE /\ rows' = UpdatePosition(rows, save.remaining[save.i], save.i - 1)
            /\ save' = [save EXCEPT !.i = @ + 1]
            /\ UNCHANGED <<existingImages, deletedImageIds, errors>>
    /\ UNCHANGED <<cache, loaded, fetch, mut, issued, confirmed, staleListing,
                   uploaded, edits, favVars, clicks, focuses, failures>>

-----------------------------------------------------------------------------
(* The two pages *)

\* the uploader of listingId is mounted
Init ==
    /\ ImagesInit
    /\ CountersInit
    /\ FavoritesInit({})
    /\ FormClosed

Next ==
    \/ FetchRead
    \/ FetchLand
    \/ WindowFocus
    \/ \E m \in Muts : Settle(m)
    \/ \E m \in Muts : NetworkFailure(m)
    \/ \E k \in 1..5 : ClickDelete(k)
    \/ DeleteRowStep
    \/ DeleteRead
    \/ DeletePhase1
    \/ DeletePhase2
    \/ \E j \in 1..5 : ClickSwap(j)
    \/ Swap1
    \/ Swap2
    \/ Swap3
    \/ \E k \in 1..5 : ClickSetCover(k)
    \/ CoverRead
    \/ CoverPhase1
    \/ CoverPhase2
    \/ \E n \in 1..MaxFiles : ClickUpload(n)
    \/ UploadStore
    \/ UploadInsert

Spec == Init /\ [][Next]_vars

\* the listings page is mounted, with any remote favorites
FavInit ==
    /\ ImagesInit
    /\ CountersInit
    /\ \E remote \in SUBSET PageIds : FavoritesInit(remote)
    /\ FormClosed

FavNext ==
    \/ FavFetchRead
    \/ FavFetchLand
    \/ FavWindowFocus
    \/ \E id \in PageIds : ClickToggle(id)
    \/ \E id \in PageIds : ClickTogglePaused(id)
    \/ ToggleResume
    \/ ToggleCall
    \/ ToggleNetworkFailure

FavSpec == FavInit /\ [][FavNext]_vars

\* the uploader of listing P opens while listing Q, whose list is cached from
\* an earlier visit, holds its image at position 0 or, after an aborted
\* renumbering, at the offset
ListingsInit ==
    /\ \E p \in {0, Offset} : rows = [InitialRows EXCEPT !["U"] = p]
    /\ cache = [l \in Listings |->
                  IF l = listingId THEN <<>> ELSE SelectImages(rows, l)]
    /\ loaded = [l \in Listings |-> l # listingId]
    /\ fetch = [st |-> "reading", data |-> <<>>]
    /\ mut = [m \in Muts |-> IdleMut]
    /\ issued = <<>>
    /\ confirmed = <<>>
    /\ staleListing = FALSE
    /\ uploaded = 0
    /\ CountersInit
    /\ FavoritesInit({})
    /\ FormClosed

ListingsSpec == ListingsInit /\ [][Next]_vars

\* the edit form of listingId is open with the images of the listing loaded
FormInit ==
    /\ ImagesInit
    /\ CountersInit
    /\ FavoritesInit({})
    /\ existingImages = SelectImages(InitialRows, listingId)
    /\ deletedImageIds = {}
    /\ save = IdleSave
    /\ edits = 0

FormNext ==
    \/ \E from, to \in 1..3 : moveExisting(from, to)
    \/ \E id \in InitialIds : markExistingDeleted(id)
    \/ ClickSave
    \/ SaveDeleteRows
    \/ SaveUpdatePosition

FormSpec == FormInit /\ [][FormNext]_vars

\* both components at work on the one query client
AppNext == Next \/ FavNext

AppSpec == Init /\ [][AppNext]_vars

\* the steps in which a call returns, a response lands, a promise resolves or
\* a paused mutation continues
Returns ==
    \/ FetchRead
    \/ FetchLand
    \/ \E m \in Muts : Settle(m)
    \/ FavFetchRead
    \/ FavFetchLand
    \/ ToggleResume
    \/ ToggleCall
    \/ UploadStore
    \/ DeleteRowStep
    \/ DeletePhase1
    \/ DeletePhase2
    \/ CoverPhase1
    \/ CoverPhase2
    \/ Swap1
    \/ Swap2
    \/ Swap3
    \/ DeleteRead
    \/ UploadInsert
    \/ CoverRead

\* a call of a mutationFn is in flight, a promise of onSuccess is about to
\* resolve, a response is on its way, or a paused mutation waits for the
\* browser to be online
CanReturn ==
    \/ \E m \in Muts : mut[m].pc \in RemotePcs \cup {"await2"}
    \/ fetch.st # "idle"
    \/ toggle.pc # "idle"
    \/ favFetch.st # "idle"

\* CanReturn is the enabling condition of Returns (an invariant of Spec and
\* of FavSpec)
CanReturnIsEnabled == CanReturn <=> ENABLED <<Returns>>_vars

\* a step of Returns: neither a click, nor a focus event, nor a network
\* failure
Returned ==
    /\ clicks' = clicks
    /\ focuses' = focuses
    /\ failures' = failures

\* every awaited call returns and every callback runs; clicks, focus events
\* and failures are under no obligation. The weak fairness of the returning
\* steps is written with their enabling condition, CanReturn
LiveSpec ==
    /\ Init
    /\ [][AppNext]_vars
    /\ WF_vars(\E m \in Muts : Settle(m))
    /\ ([]<><<Returned>>_vars \/ []<>~CanReturn)

-----------------------------------------------------------------------------
(* Vocabulary of the properties *)

LivePositions(r, l) == {r[id] : id \in RowsOf(r, l)}

Gapless(r, l) == LivePositions(r, l) = 0..(Cardinality(RowsOf(r, l)) - 1)

NoneInFlight == \A m \in Muts : ~Pending(m)

\* the awaited remote calls of m have neither all succeeded nor failed
InRemote(m) == mut[m].pc \in RemotePcs

\* m resolves in this step: its last call commits, or a call fails
Succeeds(m) == InRemote(m) /\ mut'[m].pc = "await1"

Fails(m) == InRemote(m) /\ mut'[m].pc = "idle"

\* a call of m is rejected by the store in this step (no network failure)
Rejected(m) == Fails(m) /\ failures' = failures

\* m commits a position write in this step
WritesPosition(m) == Pending(m) /\ mut'[m].w = mut[m].w + 1

\* the ids of a list in the order given, those of S only
RECURSIVE Restrict(_, _)
Restrict(ids, S) ==
    IF ids = <<>> THEN <<>>
    ELSE IF Head(ids) \in S THEN <<Head(ids)>> \o Restrict(Tail(ids), S)
    ELSE Restrict(Tail(ids), S)

\* a list of ids without id
Without(order, id) == Restrict(order, {order[k] : k \in 1..Len(order)} \ {id})

RemoteOrder(r) == Ids(SelectImages(r, listingId))

CacheOrder(c) == Ids(sortByPosition(c))

-----------------------------------------------------------------------------
(* C1: whenever no image mutation is in flight and every upload, delete,   *)
(* swap and promote so far has completed without error, the live rows of   *)
(* each listing hold exactly the positions 0..n-1.                         *)

C1_Gapless ==
    (NoneInFlight /\ errors = 0) => \A l \in Listings : Gapless(rows, l)

-----------------------------------------------------------------------------
(* C2: no position write of a full renormalization (the two loops of       *)
(* promote-to-cover and of delete) would give two live rows of the listing *)
(* the same position: the unique constraint rejects none of them.          *)

C2_RenormalizationNeverCollides ==
    [][\A m \in {"delete", "setCover"} :
          ~(mut[m].pc \in {"p1", "p2"} /\ Rejected(m))]_vars

-----------------------------------------------------------------------------
(* C3: a pairwise swap commits exactly three position writes, none of them *)
(* rejected by the unique constraint, and when the third has committed A   *)
(* and B hold each other's former position and every other row of the      *)
(* table is as it was when the swap was issued.                            *)

Exchanged(r, r0, a, b) ==
    /\ DOMAIN r = DOMAIN r0
    /\ {a, b} \subseteq DOMAIN r
    /\ r[a] = r0[b]
    /\ r[b] = r0[a]
    /\ \A o \in DOMAIN r \ {a, b} : r[o] = r0[o]

C3_SwapThreeWrites ==
    [][/\ ~Rejected("reorder")
       /\ Succeeds("reorder") =>
            /\ mut'["reorder"].w = 3
            /\ Exchanged(rows', mut["reorder"].r0,
                         mut["reorder"].a.id, mut["reorder"].b.id)]_vars

-----------------------------------------------------------------------------
(* C4: when a promote of T succeeds, T is at position 0 and the other live *)
(* images follow in their previous relative order at 1..n-1; and the list  *)
(* the promote writes into the cache when it is issued shows that order.   *)

Issues(m) == ~Pending(m) /\ mut'[m].pc \in RemotePcs

PromotedOrder(order, t) == <<t>> \o Without(order, t)

C4_PromoteOrdering ==
    [][/\ (Succeeds("setCover") /\ mut["setCover"].a.id \in DOMAIN rows') =>
            /\ Gapless(rows', listingId)
            /\ RemoteOrder(rows') =
                 PromotedOrder(RemoteOrder(mut["setCover"].r0), mut["setCover"].a.id)
       /\ Issues("setCover") =>
            CacheOrder(cache'[listingId]) =
                 PromotedOrder(CacheOrder(cache[listingId]), mut'["setCover"].a.id)]_vars

-----------------------------------------------------------------------------
(* C5: when a delete succeeds, the images that remain hold the positions   *)
(* 0..n-2 in their previous relative order in the remote table; and the    *)
(* list the delete writes into the cache when it is issued holds them at   *)
(* contiguous positions in their previous relative order.                  *)

Contiguous(list) == Positions(list) = 0..(Len(list) - 1)

C5_DeleteOrdering ==
    [][/\ Succeeds("delete") =>
            /\ Gapless(rows', listingId)
            /\ RemoteOrder(rows') =
                 Without(RemoteOrder(mut["delete"].r0), mut["delete"].a.id)
       /\ Issues("delete") =>
            /\ Contiguous(cache'[listingId])
            /\ CacheOrder(cache'[listingId]) =
                 Without(CacheOrder(cache[listingId]), mut'["delete"].a.id)]_vars

-----------------------------------------------------------------------------
(* C6: when a remote step of a delete, swap, promote or favorite toggle    *)
(* fails, the cache entry of the key is again exactly what it was just     *)
(* before that mutation's optimistic write (for favKey: no data, when      *)
(* there was none).                                                        *)

ToggleFails == toggle.pc = "call" /\ toggle'.pc = "idle" /\ errors' = errors + 1

C6_RollbackOnFailure ==
    [][/\ \A m \in Optimistic : Fails(m) => cache'[listingId] = mut[m].prev
       /\ ToggleFails =>
            /\ favLoaded' = toggle.hasPrev
            /\ toggle.hasPrev => favCache' = toggle.prev]_vars

-----------------------------------------------------------------------------
(* C7: every rollback writes into the cache of its key the state the       *)
(* server last acknowledged for that key: the last fetched value with the  *)
(* intents confirmed since applied to it.                                  *)

C7_RollbackRestoresConfirmed ==
    [][/\ \A m \in Optimistic : Fails(m) => cache'[listingId] = confirmed
       /\ (ToggleFails /\ toggle.hasPrev) => favCache' = favConfirmed]_vars

-----------------------------------------------------------------------------
(* C8: at most one mutation of the key holds a rollback snapshot while its *)
(* remote calls have neither succeeded nor failed.                         *)

C8_SingleSnapshot == Cardinality({m \in Optimistic : InRemote(m)}) <= 1

-----------------------------------------------------------------------------
(* C9: while an intent on the key is unresolved, no call of an intent      *)
(* issued after it has reached the remote store (a fortiori none was       *)
(* dispatched), and no later intent has resolved.                          *)

FirstPc(m) ==
    CASE m = "delete" -> "delRow" [] m = "reorder" -> "w1"
      [] m = "setCover" -> "covRead" [] OTHER -> "store"

C9_FifoPerKey ==
    \A i, j \in 1..Len(issued) :
        (i < j /\ InRemote(issued[i])) => mut[issued[j]].pc = FirstPc(issued[j])

-----------------------------------------------------------------------------
(* C10: no position write of a swap, promote or delete commits between the *)
(* first and the last position write of another one.                       *)

MidWrites(m) == InRemote(m) /\ mut[m].w > 0

C10_NoInterleavedRenumbering ==
    [][\A m \in Optimistic :
          WritesPosition(m) => \A o \in Optimistic \ {m} : ~MidWrites(o)]_vars

-----------------------------------------------------------------------------
(* C11 as stated: a delete of an image that was already gone from the      *)
(* remote table when it was issued resolves, unless a call fails on the    *)
(* network, as success, with the cached list equal to its value before the *)
(* call.                                                                   *)

GoneDelete(d) == d.pc # "idle" /\ d.a.id \notin DOMAIN d.r0

Resolves(m) == InRemote(m) /\ mut'[m].pc \notin RemotePcs

C11_IdempotentDeleteUnchanged ==
    [][(GoneDelete(mut["delete"]) /\ Resolves("delete") /\ failures' = failures) =>
          /\ Succeeds("delete")
          /\ cache'[listingId] = mut["delete"].prev]_vars

(* C11 as amended: the delete call for an image already gone is not an     *)
(* error: it changes no row and the mutation goes on to its fresh read;    *)
(* the optimistic write removes the image from the cached list, the rest   *)
(* keeping its order at positions 0..n-2; and success does not write the   *)
(* cached list back.                                                       *)

C11_IdempotentDelete ==
    [][/\ (GoneDelete(mut["delete"]) /\ mut["delete"].pc = "delRow"
            /\ mut'["delete"].pc # "delRow" /\ failures' = failures) =>
            /\ rows' = rows
            /\ mut'["delete"].pc = "delRead"
       /\ (Issues("delete") /\ GoneDelete(mut'["delete"])) =>
            /\ CacheOrder(cache'[listingId]) =
                 Without(CacheOrder(cache[listingId]), mut'["delete"].a.id)
            /\ Len(cache'[listingId]) = Len(cache[listingId]) - 1
            /\ Contiguous(cache'[listingId])
       /\ (GoneDelete(mut["delete"]) /\ Succeeds("delete")) =>
            cache'[listingId] = cache[listingId]]_vars

\* a delete of an image that was already gone has succeeded
C11_Witness ==
    /\ GoneDelete(mut["delete"])
    /\ mut["delete"].pc = "await1"
    /\ mut["delete"].a.id \notin {cache[listingId][k].id : k \in 1..Len(cache[listingId])}

-----------------------------------------------------------------------------
(* C12: when only two intents have been issued, without error, and the     *)
(* second is a swap issued when the remote order was the initial order     *)
(* with exactly its two images exchanged (the first was the swap of the    *)
(* same adjacent pair), then at the success of the second swap every       *)
(* remote row holds its initial position, and when that swap has settled   *)
(* the cached list is the initial list as well.                            *)

ExchangedOrder(order, orig, a, b) ==
    /\ Len(order) = Len(orig)
    /\ \E k \in 1..Len(orig) : orig[k] = a
    /\ \A k \in 1..Len(orig) :
          order[k] = IF orig[k] = a THEN b ELSE IF orig[k] = b THEN a ELSE orig[k]

InverseSwap(d) ==
    /\ clicks = 2
    /\ errors = 0
    /\ ExchangedOrder(RemoteOrder(d.r0), RemoteOrder(InitialRows), d.a.id, d.b.id)

Settles(m) == mut[m].pc = "await2" /\ mut'[m].pc = "idle"

C12_ReorderRoundTrip ==
    [][/\ (Succeeds("reorder") /\ InverseSwap(mut["reorder"])) =>
            rows' = InitialRows
       /\ (Settles("reorder") /\ InverseSwap(mut["reorder"])) =>
            /\ rows' = InitialRows
            /\ cache'[listingId] = SelectImages(InitialRows, listingId)]_vars

\* the inverse swap has succeeded and its refetch has landed
C12_Witness ==
    /\ mut["reorder"].pc = "await2"
    /\ InverseSwap(mut["reorder"])
    /\ rows = InitialRows

-----------------------------------------------------------------------------
(* C13: the insert of an upload of k files, when it is not failed by the   *)
(* network, adds k rows to the listing in one write, at the positions      *)
(* max + 1 .. max + k above the live rows of the listing (0 .. k - 1 when  *)
(* it has none), and changes no existing row.                              *)

Trailing(r, l) ==
    IF RowsOf(r, l) = {} THEN 0 ELSE MaxOf(LivePositions(r, l)) + 1

C13_InsertAppends ==
    [][(mut["upload"].pc = "insert" /\ mut'["upload"] # mut["upload"]
        /\ failures' = failures) =>
          LET k == mut["upload"].n
              start == Trailing(rows, listingId)
              new == DOMAIN rows' \ DOMAIN rows
          IN  /\ Cardinality(new) = k
              /\ {rows'[id] : id \in new} = start..(start + k - 1)
              /\ \A id \in DOMAIN rows : id \in DOMAIN rows' /\ rows'[id] = rows[id]]_vars

-----------------------------------------------------------------------------
(* C14 as stated: a second toggle of the same favorite is accepted while   *)
(* the first is unresolved; and two toggles of one favorite, the first an  *)
(* insert, both succeeding, leave the favorite out of the cached set after *)
(* exactly the two calls insert, delete.                                   *)

TwoToggles ==
    /\ clicks = 2
    /\ errors = 0
    /\ toggle.pc = "idle"
    /\ Len(favCalls) = 2
    /\ favCalls[1].id = favCalls[2].id
    /\ favCalls[1].op = "insert"

InsertThenDelete ==
    /\ favCalls[2].op = "delete"
    /\ favCalls[1].id \notin favCache
    /\ favCalls[1].id \notin favRemote

C14_DoubleTogglePending ==
    /\ (toggle.pc = "call" /\ clicks < MaxClicks) => ENABLED ClickToggle(toggle.id)
    /\ TwoToggles => InsertThenDelete

(* C14 as amended: no call is dispatched while a toggle is unresolved (the *)
(* favorite buttons are disabled); two toggles of one favorite, the first  *)
(* an insert, both succeeding, are exactly the calls insert, delete and    *)
(* leave the favorite out of the remote table; the second toggle's         *)
(* optimistic write negates the membership the cached set held and its     *)
(* success leaves the cached set as it is.                                 *)

SecondToggleIssued ==
    /\ errors = 0
    /\ Len(favCalls) = 1
    /\ favCalls[1].op = "insert"
    /\ toggle.pc = "idle"
    /\ toggle'.pc # "idle"
    /\ toggle'.id = favCalls[1].id

ToggleSucceeds == toggle.pc = "call" /\ toggle'.pc = "idle" /\ errors' = errors

C14_DoubleToggle ==
    [][/\ toggle.pc = "call" => favCalls' = favCalls
       /\ TwoToggles' =>
            (favCalls'[2].op = "delete" /\ favCalls'[1].id \notin favRemote')
       /\ SecondToggleIssued =>
            (favCalls[1].id \in favCache') = (favCalls[1].id \notin favCache)
       /\ ToggleSucceeds => favCache' = favCache]_vars

\* the two toggles have succeeded
C14_Witness == TwoToggles /\ InsertThenDelete

-----------------------------------------------------------------------------
(* C15: a promote or delete that runs alone (no other mutation pending     *)
(* when it is issued, no other intent issued since), whatever state        *)
(* earlier aborted operations left in the table, has none of its           *)
(* renumbering writes rejected by the unique constraint and, when it       *)
(* succeeds after renumbering, leaves the live positions of the listing    *)
(* exactly 0..n-1.                                                         *)

C15_SelfCorrection ==
    [][\A m \in {"delete", "setCover"} :
          mut[m].solo =>
            /\ ~(mut[m].pc \in {"p1", "p2"} /\ Rejected(m))
            /\ (Succeeds(m) /\ mut'[m].w > 0) => Gapless(rows', listingId)]_vars

-----------------------------------------------------------------------------
(* C16: the step in which a remote call of a swap, promote or delete fails *)
(* commits nothing and compensates nothing (the table is as the committed  *)
(* writes left it), ends the operation (it is idle: no remaining step, no  *)
(* retry) and writes the snapshot back into the cache, however many        *)
(* position writes had committed.                                          *)

C16_AbortOnFirstFailure ==
    [][\A m \in Optimistic :
          Fails(m) =>
            /\ rows' = rows
            /\ mut'[m] = IdleMut
            /\ cache'[listingId] = mut[m].prev]_vars

\* a swap was aborted after its first write: the row stays at the sentinel,
\* the cache shows the list as before the swap
C16_Witness ==
    /\ clicks = 1
    /\ errors = 1
    /\ NoneInFlight
    /\ \E id \in RowsOf(rows, listingId) : rows[id] = temp
    /\ cache[listingId] = SelectImages(InitialRows, listingId)

-----------------------------------------------------------------------------
(* C17: a success of an image mutation invalidates the image list (its     *)
(* refetch starts) and, once that first invalidation has returned, marks   *)
(* ["listing", listingId] stale; a success of a toggle marks ["favorites"] *)
(* stale; a failure of either marks nothing stale and starts no refetch;   *)
(* and nothing is marked stale, and no refetch other than the one on       *)
(* window focus starts, except by such a success.                          *)

FirstInvalidationReturns(m) == mut[m].pc = "await1" /\ mut'[m].pc # "await1"

-----------------------------------------------------------------------------
(* C18: the step that issues a toggle of a listing writes into the cached  *)
(* set the negation of the membership the cache held for that listing (not *)
(* a member while favKey has no data), keeps the membership of every other *)
(* listing, and neither reads nor changes the remote table nor leaves a    *)
(* fetch in flight.                                                        *)

ToggleIssued == toggle.pc = "idle" /\ toggle'.pc # "idle"

CachedMember(id) == favLoaded /\ id \in favCache

C18_ToggleFromCacheView ==
    [][ToggleIssued =>
         /\ (toggle'.id \in favCache') = ~CachedMember(toggle'.id)
         /\ \A o \in PageIds \ {toggle'.id} : (o \in favCache') = CachedMember(o)
         /\ favLoaded'
         /\ favRemote' = favRemote
         /\ favFetch'.st = "idle"]_vars

\* a toggle has written 'favorited' from the cache view although the remote
\* table already holds the favorite
C18_Witness ==
    /\ toggle.pc = "call"
    /\ toggle.id \in favCache
    /\ toggle.id \in favRemote

-----------------------------------------------------------------------------
(* C19: the step that issues a delete, swap, promote or toggle takes as    *)
(* snapshot the value the cache holds in that very step and leaves in the  *)
(* cache the intent applied to exactly that value, with no fetch of the    *)
(* key left in flight: nothing lands between the snapshot and the write,   *)
(* and the state the step leaves is the one the next read observes.        *)

C19_AtomicLocalStep ==
    [][/\ \A m \in Optimistic :
            Issues(m) =>
              /\ mut'[m].prev = cache[listingId]
              /\ cache'[listingId] = ApplyIntent(m, mut'[m], cache[listingId])
              /\ fetch'.st = "idle"
       /\ ToggleIssued =>
            /\ toggle'.hasPrev = favLoaded
            /\ favLoaded => toggle'.prev = favCache
            /\ favCache' = Toggled(IF favLoaded THEN favCache ELSE {}, toggle'.id)
            /\ favFetch'.st = "idle"]_vars

\* a mutation was issued on a list another pending mutation had already
\* changed, and the cache holds its intent applied to that list
C19_Witness ==
    \E m \in Optimistic :
        /\ InRemote(m)
        /\ mut[m].prev # confirmed
        /\ cache[listingId] = ApplyIntent(m, mut[m], mut[m].prev)
        /\ cache[listingId] # mut[m].prev

-----------------------------------------------------------------------------
(* C20: no step of listing P's uploader (upload, delete, swap, promote,    *)
(* their renumbering writes, rollbacks and refetches) changes, removes or  *)
(* adds a remote row of another listing, or changes another listing's      *)
(* cached list, whatever positions the other listing's rows hold.          *)

-----------------------------------------------------------------------------
(* C21: whenever no image mutation is in flight and the listing has an     *)
(* image, the first image in ascending position order (the one the pages   *)
(* show as cover) holds position 0; and when a promote succeeds the        *)
(* promoted image, if it still exists, holds position 0.                   *)

CoverAtZero(r, l) ==
    RowsOf(r, l) # {} => SelectImages(r, l)[1].position = 0

C21_CoverIsPositionZero ==
    [][/\ (NoneInFlight' /\ errors' = 0) => CoverAtZero(rows', listingId)
       /\ (Succeeds("setCover") /\ errors' = 0
             /\ mut["setCover"].a.id \in DOMAIN rows') =>
            rows'[mut["setCover"].a.id] = 0]_vars

-----------------------------------------------------------------------------
(* C22: the step that issues a delete, swap, promote or toggle writes the  *)
(* optimistic value into the cache and has committed no remote write; and  *)
(* for as long as that mutation is in its remote calls, with no other      *)
(* intent pending or issued meanwhile, the cache keeps that value.         *)

Alone(m) == InRemote(m) /\ mut[m].solo

C22_OptimisticBeforeRemote ==
    [][/\ \A m \in Optimistic :
            /\ Issues(m) =>
                  /\ rows' = rows
                  /\ mut'[m].w = 0
                  /\ cache'[listingId] = ApplyIntent(m, mut'[m], mut'[m].prev)
            /\ (Alone(m) /\ Alone(m)') =>
                  cache'[listingId] = ApplyIntent(m, mut[m], mut[m].prev)
       /\ ToggleIssued =>
            /\ favRemote' = favRemote
            /\ favCalls' = favCalls \/ toggle'.pc = "call"
            /\ toggle'.id \in favCache' <=> toggle'.id \notin toggle'.prev
       /\ (toggle.pc # "idle" /\ toggle'.pc # "idle") =>
            (toggle.id \in favCache' <=> toggle.id \notin toggle.prev)]_vars

-----------------------------------------------------------------------------
(* C25: the remote call a toggle dispatches is an insert when its          *)
(* optimistic write added the listing to the cached set and a delete when  *)
(* the write removed it.                                                   *)

Dispatches == Len(favCalls') = Len(favCalls) + 1

LastCall(calls) == calls[Len(calls)]

C25_ToggleDirectionAgreement ==
    [][Dispatches =>
         /\ LastCall(favCalls').id = toggle'.id
         /\ LastCall(favCalls').op =
              IF toggle'.id \in toggle'.prev THEN "delete" ELSE "insert"]_vars

-----------------------------------------------------------------------------
(* C23: when every awaited call returns, every pending image mutation and  *)
(* every pending toggle is eventually idle again (with the clicks bounded, *)
(* all of them are idle together again and again); a mutation leaves its   *)
(* remote calls only by succeeding or by failing with its error reported,  *)
(* and once it has succeeded it makes no further remote call before it is  *)
(* idle.                                                                   *)

AwaitPcs == {"await1", "await2"}

C23_Terminates ==
    /\ []<>(NoneInFlight /\ toggle.pc = "idle")
    /\ [][\A m \in Muts :
            /\ (InRemote(m) /\ ~InRemote(m)') =>
                  \/ Succeeds(m) /\ errors' = errors
                  \/ Fails(m) /\ errors' = errors + 1
            /\ mut[m].pc \in AwaitPcs => mut'[m].pc \in AwaitPcs \cup {"idle"}]_vars

\* of two image mutations one has failed and one has succeeded, and both have
\* come back to idle
C23_Witness ==
    /\ NoneInFlight
    /\ favCalls = <<>>
    /\ toggle.pc = "idle"
    /\ clicks = 2
    /\ errors = 1
    /\ Cardinality(RowsOf(rows, listingId)) = 2
    /\ Gapless(rows, listingId)
    /\ cache[listingId] = SelectImages(rows, listingId)

-----------------------------------------------------------------------------
(* C24: when the edit form saves a reordered and/or reduced set of         *)
(* existing images, no position update of the save (row i := i in          *)
(* displayed order) would give two live rows of the listing the same       *)
(* position: the unique constraint rejects none of them.                   *)

SaveRejected ==
    /\ save.pc = "positions"
    /\ save'.pc = "idle"
    /\ errors' = errors + 1

C24_EditSaveCollisionFree == [][~SaveRejected]_vars

-----------------------------------------------------------------------------
(* C26: when a toggle that was issued while favKey had no data fails, the  *)
(* cached set does not hold the listing afterwards (it was shown as not    *)
(* favorited before the toggle).                                           *)

C26_FailedToggleNoCachedSet ==
    [][(ToggleFails /\ ~toggle.hasPrev) => toggle.id \notin favCache']_vars

-----------------------------------------------------------------------------
(* C27: a swap issued while another row of the listing sits at the         *)
(* sentinel position (left there by a swap that aborted after its first    *)
(* write) has none of its writes rejected by the unique constraint and     *)
(* succeeds with three writes committed.                                   *)

\* a row of the listing other than the two being swapped was at the sentinel
\* position when the pending swap was issued
StrandedAtIssue ==
    /\ Pending("reorder")
    /\ \E o \in RowsOf(mut["reorder"].r0, listingId) :
          /\ o \notin {mut["reorder"].a.id, mut["reorder"].b.id}
          /\ mut["reorder"].r0[o] = temp

C27_SwapAfterStrandedSentinel ==
    [][StrandedAtIssue =>
          /\ ~Rejected("reorder")
          /\ Succeeds("reorder") => mut'["reorder"].w = 3]_vars

-----------------------------------------------------------------------------
(* C28: when an upload was issued after a delete or a promote that is      *)
(* still making its remote calls, the insert of the upload carries no      *)
(* position held by a live row of the listing at the moment it reaches the *)
(* table.                                                                  *)

\* m was issued before the pending upload and its remote calls are not over
RenumberingSinceBefore(m) ==
    /\ InRemote(m)
    /\ \E i, j \in 1..Len(issued) :
          i < j /\ issued[i] = m /\ issued[j] = "upload"

\* the insert of the upload reaches the table in this step
InsertArrives ==
    /\ mut["upload"].pc = "insert"
    /\ mut'["upload"].pc # "insert"
    /\ failures' = failures

C28_UploadDuringRenumbering ==
    [][(InsertArrives /\ \E m \in {"delete", "setCover"} : RenumberingSinceBefore(m)) =>
          Positions(Payload(mut["upload"].a.position, mut["upload"].n))
              \cap LivePositions(rows, listingId) = {}]_vars

-----------------------------------------------------------------------------
(* C29: a promote whose fresh read finds the image first in position order *)
(* or absent resolves as success at that read, has committed no position   *)
(* write, and changes neither a remote row nor the cached list; and a      *)
(* promote issued for an image that is remotely first or absent does not   *)
(* change the cached list when it is issued.                               *)

\* image id is first in position order among the rows of the listing, or is
\* not among them
FirstOrAbsent(r, id) == findIndex(SelectImages(r, listingId), id) <= 1

\* the fresh read of the pending promote returns in this step and finds the
\* image first or absent
PromoteNoOp ==
    /\ mut["setCover"].pc = "covRead"
    /\ mut'["setCover"].pc # "covRead"
    /\ failures' = failures
    /\ FirstOrAbsent(rows, mut["setCover"].a.id)

C29_PromoteNoOp ==
    [][/\ PromoteNoOp =>
            /\ Succeeds("setCover")
            /\ errors' = errors
            /\ mut'["setCover"].w = 0
            /\ rows' = rows
            /\ cache' = cache
       /\ (Issues("setCover") /\ FirstOrAbsent(rows, mut'["setCover"].a.id)) =>
            cache' = cache]_vars

====
